---- MODULE Spec2Model ----
(***************************************************************************)
(* A model of src/agent.py: the GmailAgent session object, its intent      *)
(* dispatcher and operation handlers, and the handle_message transport     *)
(* callback.                                                               *)
(*                                                                         *)
(* Conventions.                                                            *)
(*  - A Python string is a sequence of atoms (TLA+ strings); + and         *)
(*    f-string interpolation are \o.  The empty string is << >>.           *)
(*  - A Python dict is a function whose DOMAIN is its set of keys.         *)
(*  - A modelled Python function returns a record                          *)
(*      [ret, raised, exc, events, self]                                   *)
(*    ret: the returned value; raised: an exception left the function;     *)
(*    exc: str(e) of that exception; events: the remote calls it made, in  *)
(*    order; self: the session fields after the call.                      *)
(*  - The remote services (completion service, tool gateway, handshake)    *)
(*    are outside the program: what each of their calls does is drawn      *)
(*    from an oracle record, chosen afresh for every inbound message.      *)
(*  - handle_message contains no await between its first ctx.send (the     *)
(*    acknowledgement) and its last (the reply): every call in between is  *)
(*    a blocking call, so bodies of two handlers never interleave.         *)
(***************************************************************************)
EXTENDS Integers, Sequences, FiniteSets, TLC

VARIABLES
    connection_request,  \* GmailAgent.connection_request
    connected_account,   \* GmailAgent.connected_account
    tools,               \* GmailAgent.tools
    handshake,           \* the external handshake of the current request
    inflight,            \* << >>, or <<m>> with m the inbound message being handled
    trace,               \* what the current handle_message run sent and called
    last,                \* << >>, or <<r>> with r the run that has just ended
    pending_reported,    \* a poll of the request now pending has answered "not yet completed"
    owner,               \* the sender whose message last changed the session fields
    fmt_input,           \* << >>, or <<p>> with p a value handed to a formatter
    fmt_output           \* << >>, or <<r>> with r what the formatter made of it

vars == <<connection_request, connected_account, tools, handshake,
          inflight, trace, last, pending_reported, owner, fmt_input, fmt_output>>

-----------------------------------------------------------------------------
(* Values *)

None == "None"

\* the longest list the tool gateway returns in this model
MaxItems == 2

Senders == {"agent1qalice", "agent1qbob"}
MsgIds  == {"msg-1", "msg-2"}

EmptyDict == [k \in {} |-> TRUE]

Get(d, k, default) == IF k \in DOMAIN d THEN d[k] ELSE default

SetItem(d, k, v) == [x \in DOMAIN d \cup {k} |-> IF x = k THEN v ELSE d[x]]

\* "sep".join(parts) for a list of strings
RECURSIVE Join(_, _)
Join(sep, parts) ==
    IF parts = << >> THEN << >>
    ELSE IF Len(parts) = 1 THEN parts[1]
    ELSE parts[1] \o sep \o Join(sep, Tail(parts))

\* one call that leaves the process, as the handler run records it.
\*   call: which service; by: the function that makes it; ok: it gave the
\*   caller what it asked for; offered: the tool handles passed as tools=;
\*   named: the tool names its system instruction names; arg: the user content
\*   (or the message id); answer: what the classifier step returned
Ev(call, by, ok, offered, named, arg) ==
    [call |-> call, by |-> by, ok |-> ok, offered |-> offered,
     named |-> named, arg |-> arg, answer |-> [k \in {} |-> TRUE]]

\* a call that carries no tools
Call(call, by, ok, arg) == Ev(call, by, ok, {}, {}, arg)

\* the result of a modelled Python function
Return(v, ev, self) ==
    [ret |-> v, raised |-> FALSE, exc |-> << >>, events |-> ev, self |-> self]

Raise(e, ev, self) ==
    [ret |-> << >>, raised |-> TRUE, exc |-> e, events |-> ev, self |-> self]

-----------------------------------------------------------------------------
(* GmailAgent.__init__ *)

gmail_tools ==
    { "GMAIL_CREATE_EMAIL_DRAFT", "GMAIL_DELETE_DRAFT", "GMAIL_DELETE_MESSAGE",
      "GMAIL_FETCH_EMAILS", "GMAIL_FETCH_MESSAGE_BY_MESSAGE_ID",
      "GMAIL_GET_ATTACHMENT", "GMAIL_LIST_DRAFTS", "GMAIL_MOVE_TO_TRASH",
      "GMAIL_PATCH_LABEL", "GMAIL_REPLY_TO_THREAD", "GMAIL_SEARCH_PEOPLE",
      "GMAIL_SEND_DRAFT", "GMAIL_SEND_EMAIL", "GMAIL_ADD_LABEL_TO_EMAIL",
      "GMAIL_CREATE_LABEL", "GMAIL_FETCH_MESSAGE_BY_THREAD_ID",
      "GMAIL_GET_CONTACTS", "GMAIL_GET_PEOPLE", "GMAIL_GET_PROFILE",
      "GMAIL_LIST_LABELS", "GMAIL_LIST_THREADS", "GMAIL_MODIFY_THREAD_LABELS",
      "GMAIL_REMOVE_LABEL", "GMAIL_REPLY_TO_EMAIL", "GMAIL_MARK_AS_READ",
      "GMAIL_MARK_AS_UNREAD", "GMAIL_SEARCH_EMAILS", "GMAIL_CREATE_DRAFT" }

\* composio.tools.get(user_id, toolkits=["GMAIL"]) hands back the handles of the
\* whole toolkit; self.tools holds them, and ToolHandles lists them
ToolHandles(t) == IF t = "GMAIL" THEN gmail_tools ELSE {}

Self == [connection_request |-> connection_request,
         connected_account  |-> connected_account,
         tools              |-> tools]

\* GmailAgent(**kwargs): binding the arguments of __init__ raises TypeError when
\* a required one is missing; otherwise the body of __init__ runs
__init__(kwargs) ==
    IF {"user_email", "auth_config_id"} \subseteq DOMAIN kwargs
    THEN [raised |-> FALSE, exc |-> << >>,
          self |-> [user_email |-> kwargs["user_email"],
                    auth_config_id |-> kwargs["auth_config_id"],
                    tools |-> None, connected_account |-> None,
                    connection_request |-> None]]
    ELSE [raised |-> TRUE,
          exc |-> <<"TypeError: __init__() missing 1 required positional argument: 'user_email'">>,
          self |-> EmptyDict]

\* os.getenv("GMAIL_AUTH_CONFIG_ID"): the value, or None when it is not set
Getenv == {None, "ac_gmail"}

\* the module-level statement gmail_agent = GmailAgent(auth_config_id=os.getenv(...))
gmail_agent(getenv) == __init__([auth_config_id |-> getenv])

-----------------------------------------------------------------------------
(* Authentication *)

InitiateOutcomes == {"ok", "error"}

\* wait_for_connection(timeout=5) returns only once the user has finished the
\* flow in the browser; before that it times out; it may fail either way
WaitOutcomes(hs) ==
    IF hs = "completed" THEN {"ok", "error"} ELSE {"timeout", "error"}

ToolsGetOutcomes == {"ok", "error"}

\* an initiation that starts the session over: it drops the connection and the
\* tool handles before asking for a new request
initiate_auth_resetting(self, o) ==
    LET fresh == [self EXCEPT !.connected_account = None, !.tools = None]
    IN  IF o.initiate = "ok"
        THEN Return(<<"Please visit this URL to authenticate Gmail: ",
                      "https://redirect.url",
                      "\nAfter completing, send 'Auth complete' or your next query.">>,
                    <<Call("initiate", "initiate_auth", TRUE, << >>)>>,
                    [fresh EXCEPT !.connection_request = "request"])
        ELSE Return(<<"Error initiating auth: ", "ConnectionError">>,
                    <<Call("initiate", "initiate_auth", FALSE, << >>)>>,
                    fresh)

initiate_auth(self, o) ==
    IF o.initiate = "ok"
    THEN Return(<<"Please visit this URL to authenticate Gmail: ",
                  "https://redirect.url",
                  "\nAfter completing, send 'Auth complete' or your next query.">>,
                <<Call("initiate", "initiate_auth", TRUE, << >>)>>,
                [self EXCEPT !.connection_request = "request"])
    ELSE Return(<<"Error initiating auth: ", "ConnectionError">>,
                <<Call("initiate", "initiate_auth", FALSE, << >>)>>,
                self)

\* a poll that is made once per connection: when an earlier poll obtained the
\* connection, the tool handles are not asked for again
complete_auth_once(self, o) ==
    IF self.connection_request = None \/ self.connected_account # None
    THEN Return(FALSE, << >>, self)
    ELSE IF o.wait = "ok"
         THEN LET connected == [self EXCEPT !.connected_account = "connection"]
                  waited == Call("wait", "complete_auth", TRUE, << >>)
              IN  IF o.tools_get = "ok"
                  THEN Return(TRUE,
                              <<waited, Call("tools_get", "complete_auth", TRUE, << >>)>>,
                              [connected EXCEPT !.tools = "GMAIL"])
                  ELSE Return(FALSE,
                              <<waited, Call("tools_get", "complete_auth", FALSE, << >>)>>,
                              connected)
         ELSE Return(FALSE, <<Call("wait", "complete_auth", FALSE, << >>)>>, self)

complete_auth(self, o) ==
    IF self.connection_request = None
    THEN Return(FALSE, << >>, self)
    ELSE IF o.wait = "ok"
         THEN LET connected == [self EXCEPT !.connected_account = "connection"]
                  waited == Call("wait", "complete_auth", TRUE, << >>)
              IN  IF o.tools_get = "ok"
                  THEN Return(TRUE,
                              <<waited, Call("tools_get", "complete_auth", TRUE, << >>)>>,
                              [connected EXCEPT !.tools = "GMAIL"])
                  ELSE Return(FALSE,
                              <<waited, Call("tools_get", "complete_auth", FALSE, << >>)>>,
                              connected)
         ELSE Return(FALSE, <<Call("wait", "complete_auth", FALSE, << >>)>>, self)

\* a session that counts as authenticated as soon as the connection exists
is_authenticated_connection_only(self) ==
    self.connected_account # None

is_authenticated(self) ==
    self.connected_account # None /\ self.tools # None

-----------------------------------------------------------------------------
(* Result formatting.  A formatter returns Ok(text) or, when an exception     *)
(* leaves it, Err(str(e)).  Payload text fields (preview, body) are           *)
(* sequences of single characters, so that len() is Len.                      *)

Ok(v)  == [raised |-> FALSE, exc |-> << >>, ret |-> v]
Err(e) == [raised |-> TRUE, exc |-> e, ret |-> << >>]

\* a JSON value that is no object: a non-empty string, on which .get() raises
\* AttributeError while "key" in value is False
NotADict == [k \in {"<not a dict>"} |-> TRUE]
IsDict(v) == "<not a dict>" \notin DOMAIN v

\* character budgets of the previews
PreviewBudget == 200
ContentBudget == 1000
DraftBudget   == 150

Ellipsis == <<"...">>

\* a cut that also marks a string of exactly the budget's length
Truncate_at_budget(s, budget) ==
    IF Len(s) >= budget THEN SubSeq(s, 1, budget) \o Ellipsis ELSE s

\* s if len(s) <= budget else s[:budget] + "..."
Truncate(s, budget) ==
    IF Len(s) > budget THEN SubSeq(s, 1, budget) \o Ellipsis ELSE s

RECURSIVE Flatten(_)
Flatten(seqs) ==
    IF seqs = << >> THEN << >> ELSE Head(seqs) \o Flatten(Tail(seqs))

\* "=" * n and "-" * n, kept as one atom
Rule(ch, n) == <<ch, "*", ToString(n)>>

\* datetime.fromisoformat(date.replace('Z', '+00:00')).strftime("%Y-%m-%d %H:%M"),
\* the raw string when that raises, "Unknown Date" when there is none.
\* A timestamp is <<date, "T", hh:mm, :ss, zone>> when it is ISO-8601.
IsIso(date) ==
    /\ Len(date) = 5
    /\ date[2] = "T"
    /\ date[5] \in {"Z", "+00:00"}

FormatDate(date) ==
    IF date = << >> THEN <<"Unknown Date">>
    ELSE IF IsIso(date) THEN <<date[1], " ", date[3]>>
    ELSE date

EmailLines(msg, i) ==
    LET subject == Get(msg, "subject", <<"No Subject">>)
        sender  == Get(msg, "sender", <<"Unknown Sender">>)
        date    == Get(msg, "messageTimestamp", << >>)
        preview == Get(Get(msg, "preview", EmptyDict), "body", << >>)
    IN  << <<"\nEmail #", ToString(i)>>,
           <<"Subject: ">> \o subject,
           <<"From: ">> \o sender,
           <<"Date: ">> \o FormatDate(date) >>
        \o (IF preview # << >>
            THEN << <<"Preview: ">> \o Truncate(preview, PreviewBudget) >>
            ELSE << >>)
        \o << Rule("-", 40) >>

_format_emails(messages) ==
    IF messages = << >>
    THEN Ok(<< <<"No emails found matching your criteria.">> >>)
    ELSE IF \E i \in 1..Len(messages) : ~IsDict(messages[i])
    THEN Err(<<"AttributeError: object has no attribute 'get'">>)
    ELSE Ok(<< <<"Found ", ToString(Len(messages)), " email(s):">>, Rule("=", 60) >>
            \o Flatten([i \in 1..Len(messages) |-> EmailLines(messages[i], i)]))

\* base64.b64decode of the padded, translated data: the encoded form of a text
\* t is <<"base64">> \o t; anything else does not decode
IsBase64(data) == data # << >> /\ Head(data) = "base64"
B64Decode(data) == Tail(data)

IsSpace(c) == c \in {" ", "\n", "\t"}

\* text.strip()
RECURSIVE LStrip(_)
LStrip(t) == IF t # << >> /\ IsSpace(Head(t)) THEN LStrip(Tail(t)) ELSE t

RECURSIVE RStrip(_)
RStrip(t) ==
    IF t # << >> /\ IsSpace(t[Len(t)]) THEN RStrip(SubSeq(t, 1, Len(t) - 1)) ELSE t

\* re.sub(r' +', ' ', text): runs of spaces become one space
SqueezeSpaces(t) ==
    LET after_space == [i \in 1..Len(t) |->
                           [c |-> t[i], repeats |-> t[i] = " " /\ i > 1 /\ t[i - 1] = " "]]
        kept == SelectSeq(after_space, LAMBDA x : ~x.repeats)
    IN  [n \in 1..Len(kept) |-> kept[n].c]

\* _clean_email_text, for texts without blank lines
_clean_email_text(text) ==
    IF text = << >> THEN << >> ELSE RStrip(LStrip(SqueezeSpaces(text)))

\* the first text/plain or text/html part with data, else the payload body
RECURSIVE FirstPart(_)
FirstPart(parts) ==
    IF parts = << >> THEN << >>
    ELSE LET part == Head(parts)
             mime == Get(part, "mimeType", <<"">>)
             data == Get(Get(part, "body", EmptyDict), "data", << >>)
         IN  IF mime \in {<<"text/plain">>, <<"text/html">>} /\ data # << >>
             THEN <<part>>
             ELSE FirstPart(Tail(parts))

\* re.sub('<[^<]+?>', '', decoded): a tag is one atom "<...>"
IsTag(c) == c \in {"<p>", "</p>", "<br>", "<b>", "</b>"}
StripTags(t) == SelectSeq(t, LAMBDA c : ~IsTag(c))

_extract_email_content(msg) ==
    LET payload == Get(msg, "payload", EmptyDict)
        parts   == Get(payload, "parts", << >>)
        found   == FirstPart(parts)
        body    == Get(Get(payload, "body", EmptyDict), "data", << >>)
    IN  IF ~IsDict(payload) THEN << >>
        ELSE IF found # << >>
        THEN LET data == Get(Get(found[1], "body", EmptyDict), "data", << >>)
             IN  IF ~IsBase64(data) THEN << >>
                 ELSE IF Get(found[1], "mimeType", <<"">>) = <<"text/plain">>
                 THEN _clean_email_text(B64Decode(data))
                 ELSE _clean_email_text(StripTags(B64Decode(data)))
        ELSE IF body # << >>
        THEN IF IsBase64(body) THEN _clean_email_text(B64Decode(body)) ELSE << >>
        ELSE << >>

FullEmailLines(msg, i) ==
    LET subject == Get(msg, "subject", <<"No Subject">>)
        sender  == Get(msg, "sender", <<"Unknown Sender">>)
        date    == Get(msg, "messageTimestamp", << >>)
        content == _extract_email_content(msg)
    IN  << <<"\nEmail #", ToString(i)>>,
           <<"Subject: ">> \o subject,
           <<"From: ">> \o sender,
           <<"Date: ">> \o FormatDate(date),
           IF content # << >>
           THEN <<"Full Content: ">> \o Truncate(content, ContentBudget)
           ELSE <<"No content available">>,
           Rule("-", 40) >>

_format_emails_with_full_content(messages) ==
    IF messages = << >>
    THEN Ok(<<"No emails found matching your criteria.">>)
    ELSE IF \E i \in 1..Len(messages) : ~IsDict(messages[i])
    THEN Err(<<"AttributeError: object has no attribute 'get'">>)
    ELSE Ok(Join(<<"\n">>,
                 << <<"Found ", ToString(Len(messages)), " email(s):">>, Rule("=", 60) >>
                 \o Flatten([i \in 1..Len(messages) |-> FullEmailLines(messages[i], i)])))

DraftLines(draft, i) ==
    LET message == Get(draft, "message", EmptyDict)
        subject == Get(message, "subject", <<"No Subject">>)
        date    == Get(message, "messageTimestamp", << >>)
        preview == Get(Get(message, "preview", EmptyDict), "body", << >>)
    IN  << <<"\nDraft #", ToString(i)>>,
           <<"Subject: ">> \o subject,
           <<"Created: ">> \o FormatDate(date) >>
        \o (IF preview # << >>
            THEN << <<"Content: ">> \o Truncate(preview, DraftBudget) >>
            ELSE << >>)
        \o << Rule("-", 30) >>

_format_drafts(drafts) ==
    IF drafts = << >>
    THEN Ok(<< <<"No drafts found.">> >>)
    ELSE IF \E i \in 1..Len(drafts) : ~IsDict(drafts[i])
    THEN Err(<<"AttributeError: object has no attribute 'get'">>)
    ELSE Ok(<< <<"Found ", ToString(Len(drafts)), " draft(s):">>, Rule("=", 50) >>
            \o Flatten([i \in 1..Len(drafts) |-> DraftLines(drafts[i], i)]))

LabelLine(label) == <<"  * ">> \o Get(label, "name", <<"Unknown">>)

_format_labels(labels) ==
    IF labels = << >>
    THEN Ok(<< <<"No labels found.">> >>)
    ELSE IF \E i \in 1..Len(labels) : ~IsDict(labels[i])
    THEN Err(<<"AttributeError: object has no attribute 'get'">>)
    ELSE LET IsSystem(l) == Get(l, "type", << >>) = <<"system">>
             system_labels == SelectSeq(labels, IsSystem)
             user_labels   == SelectSeq(labels, LAMBDA l : ~IsSystem(l))
         IN  Ok(<< <<"Found ", ToString(Len(labels)), " label(s):">>, Rule("=", 40) >>
                \o (IF system_labels # << >>
                    THEN << <<"\nSystem Labels:">> >>
                         \o [i \in 1..Len(system_labels) |-> LabelLine(system_labels[i])]
                    ELSE << >>)
                \o (IF user_labels # << >>
                    THEN << <<"\nYour Labels:">> >>
                         \o [i \in 1..Len(user_labels) |-> LabelLine(user_labels[i])]
                    ELSE << >>))

ContactLines(person, i) ==
    LET names  == Get(person, "names", << >>)
        emails == Get(person, "emailAddresses", << >>)
        name   == IF names # << >> THEN Get(names[1], "displayName", <<"Unknown">>)
                  ELSE <<"Unknown">>
        email  == IF emails # << >> THEN Get(emails[1], "value", <<"No email">>)
                  ELSE <<"No email">>
    IN  << <<"\nContact #", ToString(i)>>,
           <<"Name: ">> \o name,
           <<"Email: ">> \o email,
           Rule("-", 30) >>

\* _format_contacts catches what it raises itself
_format_contacts(response_data) ==
    IF response_data = EmptyDict \/ "connections" \notin DOMAIN response_data
    THEN <<"No contacts found.">>
    ELSE LET connections == response_data["connections"]
         IN  IF \E i \in 1..Len(connections) : ~IsDict(connections[i])
             THEN <<"Error formatting contacts: ",
                    "AttributeError: object has no attribute 'get'">>
             ELSE Join(<<"\n">>,
                       << <<"Found ", ToString(Len(connections)), " contact(s):">>,
                          Rule("=", 40) >>
                       \o Flatten([i \in 1..Len(connections) |->
                                      ContactLines(connections[i], i)]))

_format_profile(profile_data) ==
    IF ~IsDict(profile_data)
    THEN <<"Error formatting profile: ", "AttributeError: object has no attribute 'get'">>
    ELSE IF profile_data = EmptyDict
    THEN <<"No profile data found.">>
    ELSE Join(<<"\n">>,
              << <<"Gmail Profile Information:">>,
                 Rule("=", 40),
                 <<"Email Address: ">> \o Get(profile_data, "emailAddress", <<"Unknown">>),
                 <<"Total Messages: ">> \o Get(profile_data, "messagesTotal", <<"0">>),
                 <<"Total Threads: ">> \o Get(profile_data, "threadsTotal", <<"0">>),
                 <<"History ID: ">> \o Get(profile_data, "historyId", <<"N/A">>) >>)

\* list.extend(text): every character of the string becomes an element of the
\* list.  An atom stands for several characters; <<"one per line: ", a>> stands
\* for the characters of the atom a as separate elements.
Extend(text) == [i \in 1..Len(text) |-> <<"one per line: ", text[i]>>]

\* the lines one item of the gateway result adds to formatted_output
ItemLines(item) ==
    IF ~IsDict(item) THEN Err(<<"AttributeError: object has no attribute 'get'">>)
    ELSE IF Get(item, "successful", FALSE) # TRUE
    THEN Ok(<< <<"Error: ">> \o Get(item, "error", <<"Unknown error">>) >>)
    ELSE LET data == Get(item, "data", EmptyDict)
         IN  IF "messages" \in DOMAIN data THEN _format_emails(data["messages"])
             ELSE IF "drafts" \in DOMAIN data THEN _format_drafts(data["drafts"])
             ELSE IF "labels" \in DOMAIN data THEN _format_labels(data["labels"])
             ELSE IF "response_data" \in DOMAIN data
             THEN Ok(Extend(_format_contacts(data["response_data"])))
             ELSE IF "emailAddress" \in DOMAIN data
             THEN Ok(<< _format_profile(data) >>)
             ELSE Ok(<< <<"Operation completed successfully">> >>)

\* "\n".join(formatted_output), or the text of the except branch when
\* formatting an item raised
JoinOutput(per_item) ==
    LET formatted_output == Flatten([i \in 1..Len(per_item) |-> per_item[i].ret])
    IN  IF \E i \in 1..Len(per_item) : per_item[i].raised
        THEN LET first == CHOOSE i \in 1..Len(per_item) :
                             /\ per_item[i].raised
                             /\ \A j \in 1..(i - 1) : ~per_item[j].raised
             IN  <<"Error formatting result: ">> \o per_item[first].exc
        ELSE IF formatted_output # << >> THEN Join(<<"\n">>, formatted_output)
        ELSE <<"Operation completed successfully">>

_format_result(result, query) ==
    IF result = << >> THEN <<"No data returned from the operation.">>
    ELSE JoinOutput([i \in 1..Len(result) |-> ItemLines(result[i])])

-----------------------------------------------------------------------------
(* Completion-service helpers *)

CompletionOutcomes == {"ok", "error"}

\* the refiner's text is the completion service's; it is kept apart from its input
refine_response_with_gpt(raw_response, outcome, by) ==
    IF outcome = "ok"
    THEN [ret |-> <<"refined: ">> \o raw_response,
          events |-> <<Call("refine", by, TRUE, raw_response)>>]
    ELSE [ret |-> raw_response,
          events |-> <<Call("refine", by, FALSE, raw_response)>>]

Or(a, b) == IF a # << >> THEN a ELSE b

ComposeOutcomes == {"ok", "no_subject", "error"}

\* a composition whose except branch hands back what the user gave, without
\* the default subject and greeting
compose_email_with_ai_no_defaults(recipient, subject, content, context, outcome) ==
    LET user_prompt == <<"Compose an email for: Recipient: ">> \o recipient
                       \o <<" Subject: ">> \o Or(subject, <<"Please create an appropriate subject">>)
                       \o <<" Content/Context: ">> \o Or(content, context)
                       \o <<" Additional context: ">>
                       \o (IF context # content THEN context ELSE << >>)
    IN  IF outcome = "ok"
        THEN [ret |-> [subject |-> <<"composed subject">>, body |-> <<"composed body">>],
              events |-> <<Call("compose", "compose_email_with_ai", TRUE, user_prompt)>>]
        ELSE IF outcome = "no_subject"
        THEN [ret |-> [body |-> <<"composed body">>],
              events |-> <<Call("compose", "compose_email_with_ai", TRUE, user_prompt)>>]
        ELSE [ret |-> [subject |-> subject, body |-> content],
              events |-> <<Call("compose", "compose_email_with_ai", FALSE, user_prompt)>>]

\* json.loads of the completion's content, or the literal fallback
compose_email_with_ai(recipient, subject, content, context, outcome) ==
    LET user_prompt == <<"Compose an email for: Recipient: ">> \o recipient
                       \o <<" Subject: ">> \o Or(subject, <<"Please create an appropriate subject">>)
                       \o <<" Content/Context: ">> \o Or(content, context)
                       \o <<" Additional context: ">>
                       \o (IF context # content THEN context ELSE << >>)
    IN  IF outcome = "ok"
        THEN [ret |-> [subject |-> <<"composed subject">>, body |-> <<"composed body">>],
              events |-> <<Call("compose", "compose_email_with_ai", TRUE, user_prompt)>>]
        ELSE IF outcome = "no_subject"
        THEN [ret |-> [body |-> <<"composed body">>],
              events |-> <<Call("compose", "compose_email_with_ai", TRUE, user_prompt)>>]
        ELSE [ret |-> [subject |-> Or(subject, <<"Message">>),
                       body |-> Or(content,
                                   <<"Hello,\n\nI hope this email finds you well.\n\nBest regards">>)],
              events |-> <<Call("compose", "compose_email_with_ai", FALSE, user_prompt)>>]

-----------------------------------------------------------------------------
(* Intent classification *)

HandledIntents ==
    {"SEND", "SEARCH", "DELETE", "MOVE_TO_TRASH", "GET_CONTACTS", "MARK_READ",
     "MARK_UNREAD", "READ", "CREATE_LABEL", "GET_PROFILE"}

\* intent names the classifier may answer with: the ones process_query tests
\* for, two of the others its instruction lists, and UNKNOWN
IntentNames == HandledIntents \cup {"AUTH", "LIST", "REPLY", "UNKNOWN"}

ParamChoices(intent) ==
    CASE intent = "SEND" ->
           { EmptyDict, NotADict,
             [recipient |-> <<"bob@example.com">>],
             [recipient |-> <<"bob@example.com">>, subject |-> <<"Lunch">>,
              content |-> <<"See you at noon">>] }
      [] intent = "CREATE_LABEL" ->
           { EmptyDict, NotADict, [label_name |-> <<"fetch.ai">>] }
      [] intent \in {"SEARCH", "MOVE_TO_TRASH", "READ"} ->
           { EmptyDict, NotADict, [is_spam |-> TRUE],
             [sender |-> <<"john@example.com">>, is_spam |-> TRUE],
             [subject |-> <<"invoice">>, query |-> <<"has:attachment">>] }
      [] intent = "DELETE" ->
           { EmptyDict, NotADict, [is_spam |-> TRUE],
             [is_spam |-> TRUE, query |-> <<"older_than:30d">>],
             [email_id |-> <<"18c2f">>] }
      [] intent \in {"MARK_READ", "MARK_UNREAD"} ->
           { NotADict, [query |-> <<"from:boss">>], [email_id |-> <<"18c2f">>] }
      [] OTHER -> { EmptyDict }

\* the JSON objects the completion service may answer the classifier with
ClassifierJson ==
    { EmptyDict }
    \cup UNION { { [intent |-> i, parameters |-> p, confidence |-> "0.9"] :
                   p \in ParamChoices(i) } : i \in IntentNames }

\* ok: a JSON object; not_object: JSON that parses to something else;
\* bad_json: content json.loads rejects; error: the completion call raises
ClassifyOutcomes == {"ok", "not_object", "error", "bad_json"}

\* the classifier step, recorded with what it handed to process_query
Classified(message, ok, answer) ==
    [ret |-> answer,
     events |-> <<[Call("classify", "analyze_user_intent", ok, message)
                     EXCEPT !.answer = answer]>>]

\* a classifier whose failure is not turned into the UNKNOWN answer
analyze_user_intent_unguarded(message, o) ==
    IF o.classify = "ok" THEN Classified(message, TRUE, o.json)
    ELSE IF o.classify = "not_object" THEN Classified(message, TRUE, NotADict)
    ELSE Classified(message, FALSE, NotADict)

analyze_user_intent(message, o) ==
    IF o.classify = "ok" THEN Classified(message, TRUE, o.json)
    ELSE IF o.classify = "not_object" THEN Classified(message, TRUE, NotADict)
    ELSE Classified(message, FALSE,
                    [intent |-> "UNKNOWN", parameters |-> EmptyDict,
                     confidence |-> "0.0"])

-----------------------------------------------------------------------------
(* Operation handlers *)

\* what composio.provider.handle_tool_calls may hand back: a list of at most
\* MaxItems per-call results, or an exception
GatewayItems ==
    { [successful |-> TRUE, data |-> EmptyDict],
      [successful |-> FALSE, error |-> <<"Insufficient Permission">>],
      NotADict }

GatewayLists == UNION { [1..n -> GatewayItems] : n \in 0..MaxItems }

GatewayOutcomes ==
    { [ok |-> FALSE, result |-> << >>] }
    \cup { [ok |-> TRUE, result |-> r] : r \in GatewayLists }

\* the same with the gateway call tried again when it fails
tool_calls_retrying(self, by, named, prompt, o) ==
    LET completion == Ev("complete", by, o.complete = "ok",
                         ToolHandles(self.tools), named, prompt)
        gateway    == Call("gateway", by, o.gateway.ok, prompt)
    IN  IF o.complete # "ok"
        THEN Raise(<<"Connection error.">>, <<completion>>, self)
        ELSE IF ~o.gateway.ok
        THEN Raise(<<"Tool execution failed">>, <<completion, gateway, gateway>>, self)
        ELSE Return(o.gateway.result, <<completion, gateway>>, self)

\* openai_client.chat.completions.create(tools=self.tools, ...) followed by
\* composio.provider.handle_tool_calls(response=response, ...)
tool_calls(self, by, named, prompt, o) ==
    LET completion == Ev("complete", by, o.complete = "ok",
                         ToolHandles(self.tools), named, prompt)
        gateway    == Call("gateway", by, o.gateway.ok, prompt)
    IN  IF o.complete # "ok"
        THEN Raise(<<"Connection error.">>, <<completion>>, self)
        ELSE IF ~o.gateway.ok
        THEN Raise(<<"Tool execution failed">>, <<completion, gateway>>, self)
        ELSE Return(o.gateway.result, <<completion, gateway>>, self)

\* except Exception as e: return {"success": False, "error": str(e)}
HandlerFail(exc, ev, self) ==
    Return([success |-> FALSE, error |-> exc], ev, self)

AttributeError == <<"'str' object has no attribute 'get'">>

\* the part every handler ends with: format, refine, build the result dict
handler_result(self, by, intent, query, called, formatted, o) ==
    IF called.raised THEN HandlerFail(called.exc, called.events, self)
    ELSE IF formatted.raised THEN HandlerFail(formatted.exc, called.events, self)
    ELSE LET refined == refine_response_with_gpt(formatted.ret, o.refine, by)
         IN  Return([success |-> TRUE, query |-> query, intent |-> intent,
                     result |-> called.ret, formatted_result |-> refined.ret],
                    called.events \o refined.events, self)

_handle_send_email(self, parameters, o) ==
    IF ~IsDict(parameters) THEN HandlerFail(AttributeError, << >>, self)
    ELSE
    LET recipient == Get(parameters, "recipient", << >>)
        composed  == compose_email_with_ai(recipient,
                                           Get(parameters, "subject", << >>),
                                           Get(parameters, "content", << >>),
                                           Get(parameters, "context", << >>),
                                           o.compose)
        composed_email == composed.ret
        prompt == <<"Send an email to ">> \o recipient \o <<" with: Subject: ">>
                  \o composed_email["subject"] \o <<" Body: ">> \o composed_email["body"]
        called == tool_calls(self, "_handle_send_email", {"GMAIL_SEND_EMAIL"}, prompt, o)
        query  == <<"Send email to ">> \o recipient
        done   == handler_result(self, "_handle_send_email", "SEND", query, called,
                                 Ok(_format_result(called.ret, query)), o)
    IN  IF recipient = << >>
        THEN Return([error |-> <<"No recipient specified">>], << >>, self)
        ELSE IF "subject" \notin DOMAIN composed_email
        THEN HandlerFail(<<"'subject'">>, composed.events, self)
        ELSE [done EXCEPT
                !.events = composed.events \o @,
                !.ret = IF Get(@, "success", FALSE) = TRUE
                        THEN SetItem(@, "composed_email", composed_email) ELSE @]

\* the search expression of the search, trash and read handlers
QueryParts(parameters, with_spam) ==
    (IF Get(parameters, "sender", << >>) # << >>
     THEN << <<"from:">> \o parameters["sender"] >> ELSE << >>)
    \o (IF Get(parameters, "subject", << >>) # << >>
        THEN << <<"subject:">> \o parameters["subject"] >> ELSE << >>)
    \o (IF Get(parameters, "query", << >>) # << >>
        THEN << parameters["query"] >> ELSE << >>)
    \o (IF with_spam /\ Get(parameters, "is_spam", FALSE) = TRUE
        THEN << <<"is:spam">> >> ELSE << >>)

JoinedQuery(query_parts) ==
    IF query_parts # << >> THEN Join(<<" ">>, query_parts) ELSE <<"recent emails">>

_handle_search_emails(self, parameters, o) ==
    IF ~IsDict(parameters) THEN HandlerFail(AttributeError, << >>, self)
    ELSE
    LET query  == JoinedQuery(QueryParts(parameters, TRUE))
        prompt == <<"Search Gmail for emails matching: ">> \o query
                  \o <<". Include full details and body content.">>
        called == tool_calls(self, "_handle_search_emails", {"GMAIL_FETCH_EMAILS"}, prompt, o)
        label  == <<"Search for: ">> \o query
    IN  handler_result(self, "_handle_search_emails", "SEARCH", label, called,
                       Ok(_format_result(called.ret, label)), o)

_handle_delete_emails(self, parameters, o) ==
    IF ~IsDict(parameters) THEN HandlerFail(AttributeError, << >>, self)
    ELSE
    LET email_id == Get(parameters, "email_id", << >>)
        given    == Get(parameters, "query", << >>)
        query    == IF Get(parameters, "is_spam", FALSE) = TRUE
                    THEN (IF given # << >> THEN <<"is:spam ">> \o given ELSE <<"is:spam">>)
                    ELSE given
        prompt == <<"Delete emails matching the criteria: ">> \o Or(query, email_id)
                  \o <<". First search for matching emails, then delete them using GMAIL_DELETE_MESSAGE.">>
        called == tool_calls(self, "_handle_delete_emails",
                             {"GMAIL_FETCH_EMAILS", "GMAIL_DELETE_MESSAGE"}, prompt, o)
        label  == <<"Delete emails: ">> \o Or(query, email_id)
    IN  handler_result(self, "_handle_delete_emails", "DELETE", label, called,
                       Ok(_format_result(called.ret, label)), o)

_handle_move_to_trash(self, parameters, o) ==
    IF ~IsDict(parameters) THEN HandlerFail(AttributeError, << >>, self)
    ELSE
    LET query  == JoinedQuery(QueryParts(parameters, FALSE))
        prompt == <<"Move emails matching '">> \o query
                  \o <<"' to trash using GMAIL_MOVE_TO_TRASH.">>
        called == tool_calls(self, "_handle_move_to_trash",
                             {"GMAIL_FETCH_EMAILS", "GMAIL_MOVE_TO_TRASH"}, prompt, o)
        label  == <<"Move to trash: ">> \o query
    IN  handler_result(self, "_handle_move_to_trash", "MOVE_TO_TRASH", label, called,
                       Ok(_format_result(called.ret, label)), o)

\* result[0].get("data", {}) if result else {}
FirstData(result) ==
    IF result = << >> THEN Ok(EmptyDict)
    ELSE IF ~IsDict(result[1]) THEN Err(AttributeError)
    ELSE Ok(Get(result[1], "data", EmptyDict))

_handle_get_contacts(self, parameters, o) ==
    LET prompt == <<"Fetch the list of contacts using GMAIL_GET_CONTACTS. Include names and email addresses.">>
        called == tool_calls(self, "_handle_get_contacts", {"GMAIL_GET_CONTACTS"}, prompt, o)
        data   == FirstData(called.ret)
    IN  handler_result(self, "_handle_get_contacts", "GET_CONTACTS", <<"List contacts">>, called,
                       IF data.raised THEN data ELSE Ok(_format_contacts(data.ret)), o)

_handle_mark_as_read(self, parameters, o) ==
    IF ~IsDict(parameters) THEN HandlerFail(AttributeError, << >>, self)
    ELSE
    LET email_id == Get(parameters, "email_id", << >>)
        query    == Get(parameters, "query", << >>)
        prompt == <<"Mark emails matching '">> \o Or(query, email_id)
                  \o <<"' as read using GMAIL_MARK_AS_READ.">>
        called == tool_calls(self, "_handle_mark_as_read",
                             {"GMAIL_FETCH_EMAILS", "GMAIL_MARK_AS_READ"}, prompt, o)
        label  == <<"Mark as read: ">> \o Or(query, email_id)
    IN  handler_result(self, "_handle_mark_as_read", "MARK_READ", label, called,
                       Ok(_format_result(called.ret, label)), o)

_handle_mark_as_unread(self, parameters, o) ==
    IF ~IsDict(parameters) THEN HandlerFail(AttributeError, << >>, self)
    ELSE
    LET email_id == Get(parameters, "email_id", << >>)
        query    == Get(parameters, "query", << >>)
        prompt == <<"Mark emails matching '">> \o Or(query, email_id)
                  \o <<"' as unread using GMAIL_MARK_AS_UNREAD.">>
        called == tool_calls(self, "_handle_mark_as_unread",
                             {"GMAIL_FETCH_EMAILS", "GMAIL_MARK_AS_UNREAD"}, prompt, o)
        label  == <<"Mark as unread: ">> \o Or(query, email_id)
    IN  handler_result(self, "_handle_mark_as_unread", "MARK_UNREAD", label, called,
                       Ok(_format_result(called.ret, label)), o)

_handle_read_email(self, parameters, o) ==
    IF ~IsDict(parameters) THEN HandlerFail(AttributeError, << >>, self)
    ELSE
    LET query  == JoinedQuery(QueryParts(parameters, FALSE))
        prompt == <<"Fetch emails matching '">> \o query
                  \o <<"' using GMAIL_FETCH_EMAILS and include full body content.">>
        called == tool_calls(self, "_handle_read_email", {"GMAIL_FETCH_EMAILS"}, prompt, o)
        data   == FirstData(called.ret)
    IN  handler_result(self, "_handle_read_email", "READ", <<"Read emails: ">> \o query, called,
                       IF data.raised THEN data
                       ELSE IF ~IsDict(data.ret) THEN Err(AttributeError)
                       ELSE _format_emails_with_full_content(
                                Get(data.ret, "messages", << >>)), o)

_handle_create_label(self, parameters, o) ==
    IF ~IsDict(parameters) THEN HandlerFail(AttributeError, << >>, self)
    ELSE
    LET label_name == Get(parameters, "label_name", << >>)
        prompt == <<"Create a Gmail label named '">> \o label_name
                  \o <<"' using GMAIL_CREATE_LABEL.">>
        called == tool_calls(self, "_handle_create_label", {"GMAIL_CREATE_LABEL"}, prompt, o)
        label  == <<"Create label: ">> \o label_name
    IN  IF label_name = << >>
        THEN Return([error |-> <<"No label name specified">>], << >>, self)
        ELSE handler_result(self, "_handle_create_label", "CREATE_LABEL", label, called,
                            Ok(_format_result(called.ret, label)), o)

_handle_get_profile(self, parameters, o) ==
    LET prompt == <<"Fetch Gmail profile information using GMAIL_GET_PROFILE.">>
        called == tool_calls(self, "_handle_get_profile", {"GMAIL_GET_PROFILE"}, prompt, o)
        data   == FirstData(called.ret)
    IN  handler_result(self, "_handle_get_profile", "GET_PROFILE", <<"Get profile">>, called,
                       IF data.raised THEN data ELSE Ok(_format_profile(data.ret)), o)

-----------------------------------------------------------------------------
(* The dispatcher *)

Lower(w) ==
    CASE w \in {"@composio", "@Composio", "@COMPOSIO"} -> "@composio"
      [] w \in {"agent", "Agent", "AGENT"} -> "agent"
      [] OTHER -> w

\* re.sub(r'^@composio\s+agent\s+', '', user_query, flags=re.IGNORECASE).strip()
\* on a query given as its words
clean_query(user_query) ==
    IF /\ Len(user_query) >= 3
       /\ Lower(user_query[1]) = "@composio"
       /\ Lower(user_query[2]) = "agent"
    THEN SubSeq(user_query, 3, Len(user_query))
    ELSE user_query

\* the chain with the MARK_UNREAD branch calling the MARK_READ handler
dispatch_unread_as_read(intent) ==
    CASE intent = "SEND"          -> "_handle_send_email"
      [] intent = "SEARCH"        -> "_handle_search_emails"
      [] intent = "DELETE"        -> "_handle_delete_emails"
      [] intent = "MOVE_TO_TRASH" -> "_handle_move_to_trash"
      [] intent = "GET_CONTACTS"  -> "_handle_get_contacts"
      [] intent = "MARK_READ"     -> "_handle_mark_as_read"
      [] intent = "MARK_UNREAD"   -> "_handle_mark_as_read"
      [] intent = "READ"          -> "_handle_read_email"
      [] intent = "CREATE_LABEL"  -> "_handle_create_label"
      [] intent = "GET_PROFILE"   -> "_handle_get_profile"
      [] OTHER                    -> "generic"

\* the if/elif chain of process_query: the function an intent name selects
dispatch(intent) ==
    CASE intent = "SEND"          -> "_handle_send_email"
      [] intent = "SEARCH"        -> "_handle_search_emails"
      [] intent = "DELETE"        -> "_handle_delete_emails"
      [] intent = "MOVE_TO_TRASH" -> "_handle_move_to_trash"
      [] intent = "GET_CONTACTS"  -> "_handle_get_contacts"
      [] intent = "MARK_READ"     -> "_handle_mark_as_read"
      [] intent = "MARK_UNREAD"   -> "_handle_mark_as_unread"
      [] intent = "READ"          -> "_handle_read_email"
      [] intent = "CREATE_LABEL"  -> "_handle_create_label"
      [] intent = "GET_PROFILE"   -> "_handle_get_profile"
      [] OTHER                    -> "generic"

\* the else branch of process_query; what it raises is for process_query to catch
generic_handler(self, cleaned_query, intent, parameters, o) ==
    LET called == tool_calls(self, "generic", gmail_tools, cleaned_query, o)
    IN  IF called.raised THEN called
        ELSE Return([success |-> TRUE, query |-> cleaned_query, intent |-> intent,
                     parameters |-> parameters, result |-> called.ret,
                     formatted_result |-> _format_result(called.ret, cleaned_query),
                     model_response |-> <<"Action completed successfully">>],
                    called.events, self)

\* the handler's events, after the record that it was entered
Entered(handler, cleaned_query, ran) ==
    [ran EXCEPT !.events = <<Call("handler", handler, TRUE, cleaned_query)>> \o @]

call_handler(handler, self, cleaned_query, intent, parameters, o) ==
    Entered(handler, cleaned_query,
        CASE handler = "_handle_send_email" -> _handle_send_email(self, parameters, o)
          [] handler = "_handle_search_emails" -> _handle_search_emails(self, parameters, o)
          [] handler = "_handle_delete_emails" -> _handle_delete_emails(self, parameters, o)
          [] handler = "_handle_move_to_trash" -> _handle_move_to_trash(self, parameters, o)
          [] handler = "_handle_get_contacts" -> _handle_get_contacts(self, parameters, o)
          [] handler = "_handle_mark_as_read" -> _handle_mark_as_read(self, parameters, o)
          [] handler = "_handle_mark_as_unread" -> _handle_mark_as_unread(self, parameters, o)
          [] handler = "_handle_read_email" -> _handle_read_email(self, parameters, o)
          [] handler = "_handle_create_label" -> _handle_create_label(self, parameters, o)
          [] handler = "_handle_get_profile" -> _handle_get_profile(self, parameters, o)
          [] OTHER -> generic_handler(self, cleaned_query, intent, parameters, o))

\* lines 189-196: refine what the handler returned, or catch what it raised
refine_or_catch(self, cleaned_query, ran, o) ==
    LET refined == refine_response_with_gpt(
                       Get(ran.ret, "formatted_result", <<"Action completed successfully">>),
                       o.refine2, "process_query")
    IN  IF ran.raised
        THEN Return([success |-> FALSE,
                     error |-> <<"Error processing query: ">> \o ran.exc,
                     query |-> cleaned_query],
                    ran.events, self)
        ELSE Return(SetItem(ran.ret, "formatted_result", refined.ret),
                    ran.events \o refined.events, self)

\* lines 147-196: the try block around the handlers
run_operation(self, cleaned_query, intent, parameters, o) ==
    refine_or_catch(self, cleaned_query,
                    call_handler(dispatch(intent), self, cleaned_query, intent,
                                 parameters, o),
                    o)

\* lines 140-142
auth_result(auth) ==
    Return([success |-> TRUE, intent |-> "AUTH", formatted_result |-> auth.ret],
           auth.events, auth.self)

After(events, done) == [done EXCEPT !.events = events \o @]

\* a dispatcher that tests authentication before it looks at the intent
dispatch_query_guard_first(self, cleaned_query, intent_analysis, o) ==
    LET intent     == Get(intent_analysis.ret, "intent", "UNKNOWN")
        parameters == Get(intent_analysis.ret, "parameters", EmptyDict)
    IN  IF ~IsDict(intent_analysis.ret)
        THEN Raise(AttributeError, intent_analysis.events, self)
        ELSE IF ~is_authenticated(self)
        THEN Return([success |-> FALSE,
                     error |-> <<"Gmail not authenticated. Send 'Authenticate Gmail' to start auth.">>],
                    intent_analysis.events, self)
        ELSE IF intent = "AUTH"
        THEN After(intent_analysis.events, auth_result(initiate_auth(self, o)))
        ELSE After(intent_analysis.events,
                   run_operation(self, cleaned_query, intent, parameters, o))

\* lines 135-196, with the classifier's answer in hand
dispatch_query(self, cleaned_query, intent_analysis, o) ==
    LET intent     == Get(intent_analysis.ret, "intent", "UNKNOWN")
        parameters == Get(intent_analysis.ret, "parameters", EmptyDict)
    IN  IF ~IsDict(intent_analysis.ret)
        THEN Raise(AttributeError, intent_analysis.events, self)
        ELSE IF intent = "AUTH"
        THEN After(intent_analysis.events, auth_result(initiate_auth(self, o)))
        ELSE IF ~is_authenticated(self)
        THEN Return([success |-> FALSE,
                     error |-> <<"Gmail not authenticated. Send 'Authenticate Gmail' to start auth.">>],
                    intent_analysis.events, self)
        ELSE After(intent_analysis.events,
                   run_operation(self, cleaned_query, intent, parameters, o))

process_query(self, user_query, o) ==
    dispatch_query(self, clean_query(user_query),
                   analyze_user_intent(clean_query(user_query), o), o)

-----------------------------------------------------------------------------
(* The transport callback *)

\* inbound contents: lists of typed segments, the text ones carrying words
Contents ==
    { << [type |-> "text", text |-> <<"Authenticate", "Gmail">>] >>,
      << [type |-> "text", text |-> <<"@Composio", "AGENT">>],
         [type |-> "metadata", text |-> <<"ignored">>],
         [type |-> "text", text |-> <<"delete", "spam", "mail">>] >>,
      << [type |-> "text", text |-> <<"Get", "my", "profile">>] >> }

\* text += item.text for every TextContent item
RECURSIVE TextOf(_)
TextOf(content) ==
    IF content = << >> THEN << >>
    ELSE (IF Head(content).type = "text" THEN Head(content).text ELSE << >>)
         \o TextOf(Tail(content))

\* an acknowledgement that carries a fresh identifier
acknowledge_fresh_id(msg) == <<Call("ack", "handle_message", TRUE, <<"uuid4">>)>>

\* the first ctx.send of handle_message
acknowledge(msg) == <<Call("ack", "handle_message", TRUE, <<msg.msg_id>>)>>

\* the last ctx.send of handle_message
reply(response) == <<Call("reply", "handle_message", TRUE, response)>>

AuthCompleted ==
    <<"Gmail authentication completed successfully! Try commands like 'Create a label called fetch.ai' or 'Get my profile'.">>

AuthPending ==
    <<"Authentication not yet completed. Please complete the auth flow in your browser and try again.">>

\* the same without the except branch
response_of_unguarded(query) ==
    [self |-> query.self, events |-> query.events, raised |-> query.raised,
     result |-> IF query.raised THEN EmptyDict ELSE query.ret,
     response |->
         IF query.raised THEN << >>
         ELSE IF Get(query.ret, "success", FALSE) = TRUE
         THEN Get(query.ret, "formatted_result", <<"Action completed successfully">>)
         ELSE <<"Error: ">> \o Get(query.ret, "error", <<"Unknown error">>)]

\* lines 845-852: the response for what process_query returned, or the
\* except branch for what it raised
response_of(query) ==
    [self |-> query.self, events |-> query.events, raised |-> FALSE,
     result |-> IF query.raised THEN EmptyDict ELSE query.ret,
     response |->
         IF query.raised
         THEN <<"Sorry, couldn't process that: ">> \o query.exc
         ELSE IF Get(query.ret, "success", FALSE) = TRUE
         THEN Get(query.ret, "formatted_result", <<"Action completed successfully">>)
         ELSE <<"Error: ">> \o Get(query.ret, "error", <<"Unknown error">>)]

\* try: result = gmail_agent.process_query(text) ... except Exception as e:
guarded_query(self, text, o) == response_of(process_query(self, text, o))

\* lines 839-842: the response for what complete_auth returned
poll_response(polled) ==
    [self |-> polled.self, events |-> polled.events, raised |-> FALSE,
     result |-> EmptyDict,
     response |-> IF polled.ret THEN AuthCompleted ELSE AuthPending]

poll_auth(self, o) == poll_response(complete_auth(self, o))

\* lines 854-864: the reply is sent unless an exception left the body
send_reply(text, branch, body) ==
    [self |-> body.self, text |-> text, branch |-> branch,
     result |-> body.result, raised |-> body.raised,
     response |-> IF body.raised THEN << >> ELSE body.response,
     events |-> body.events
                \o (IF body.raised THEN << >> ELSE reply(body.response))]

\* a callback that always forwards the text to process_query
handle_message_always_query(self, msg, o) ==
    send_reply(TextOf(msg.content), "query",
               guarded_query(self, TextOf(msg.content), o))

\* a callback that keeps the session for one sender and treats every other
\* sender as if it had a session of its own, never authenticated
handle_message_per_sender(self, msg, o) ==
    LET own == IF msg.sender = "agent1qalice" THEN self
               ELSE [connection_request |-> None, connected_account |-> None,
                     tools |-> None]
        ran == IF own.connection_request # None /\ ~is_authenticated(own)
               THEN send_reply(TextOf(msg.content), "poll", poll_auth(own, o))
               ELSE send_reply(TextOf(msg.content), "query",
                               guarded_query(own, TextOf(msg.content), o))
    IN  IF msg.sender = "agent1qalice" THEN ran ELSE [ran EXCEPT !.self = self]

\* handle_message after its acknowledgement: lines 830-864
handle_message(self, msg, o) ==
    IF self.connection_request # None /\ ~is_authenticated(self)
    THEN send_reply(TextOf(msg.content), "poll", poll_auth(self, o))
    ELSE send_reply(TextOf(msg.content), "query",
                    guarded_query(self, TextOf(msg.content), o))

-----
(* What the remote services do during one handle_message run *)

NoGateway == [ok |-> FALSE, result |-> << >>]

\* outcomes of the calls a handler makes, without the combinations that
\* differ only in a call that is never reached
HandlerOracles ==
    { h \in [compose : ComposeOutcomes, complete : CompletionOutcomes,
             gateway : GatewayOutcomes, refine : CompletionOutcomes,
             refine2 : CompletionOutcomes] :
        /\ h.complete # "ok" => h.gateway = NoGateway
        /\ ~h.gateway.ok => h.refine = "ok" }

NoHandlerOracle ==
    [compose |-> "ok", complete |-> "ok", gateway |-> NoGateway,
     refine |-> "ok", refine2 |-> "ok"]

ClassifierOracles ==
    { [classify |-> c, json |-> EmptyDict] : c \in ClassifyOutcomes }
    \cup { [classify |-> "ok", json |-> j] : j \in ClassifierJson }

Oracle(c, i, w, t, h) ==
    [classify |-> c.classify, json |-> c.json, initiate |-> i, wait |-> w,
     tools_get |-> t, compose |-> h.compose, complete |-> h.complete,
     gateway |-> h.gateway, refine |-> h.refine, refine2 |-> h.refine2]

NoClassifierOracle == [classify |-> "ok", json |-> EmptyDict]

\* an oracle says nothing about a call the run does not make
Canonical(o, events) ==
    LET made(call) == \E i \in 1..Len(events) : events[i].call = call
        refines(by_query) ==
            \E i \in 1..Len(events) :
                /\ events[i].call = "refine"
                /\ (events[i].by = "process_query") = by_query
    IN  /\ ~made("classify")  => o.classify = "ok" /\ o.json = EmptyDict
        /\ ~made("initiate")  => o.initiate = "ok"
        /\ ~made("wait")      => o.wait = "ok"
        /\ ~made("tools_get") => o.tools_get = "ok"
        /\ ~made("compose")   => o.compose = "ok"
        /\ ~made("complete")  => o.complete = "ok"
        /\ ~made("gateway")   => o.gateway = NoGateway
        /\ ~refines(FALSE)    => o.refine = "ok"
        /\ ~refines(TRUE)     => o.refine2 = "ok"

\* o is an oracle for a run that makes the calls in events
Admissible(o, hs, events) ==
    /\ Canonical(o, events)
    /\ (\E i \in 1..Len(events) : events[i].call = "wait") => o.wait \in WaitOutcomes(hs)

Oracles(self, hs, msg) ==
    LET candidates ==
            IF self.connection_request # None /\ ~is_authenticated(self)
            THEN { Oracle(NoClassifierOracle, "ok", w, t, NoHandlerOracle) :
                     w \in WaitOutcomes(hs) \cup {"ok"}, t \in ToolsGetOutcomes }
            ELSE { Oracle(c, i, "ok", "ok", h) :
                     c \in ClassifierOracles, i \in InitiateOutcomes,
                     h \in IF is_authenticated(self) THEN HandlerOracles
                           ELSE {NoHandlerOracle} }
    IN  { o \in candidates : Admissible(o, hs, handle_message(self, msg, o).events) }

-----------------------------------------------------------------------------
(* The state machine *)

\* the session fields as the body of __init__ sets them (lines 50-52)
Init ==
    /\ connection_request = None
    /\ connected_account = None
    /\ tools = None
    /\ handshake = "none"
    /\ inflight = << >>
    /\ trace = << >>
    /\ last = << >>
    /\ pending_reported = FALSE
    /\ owner = None
    /\ fmt_input = << >>
    /\ fmt_output = << >>

\* an inbound ChatMessage arrives: handle_message starts and sends the
\* acknowledgement (lines 824-829)
Receive(sender, msg_id, content) ==
    /\ inflight = << >>
    /\ inflight' = << [sender |-> sender, msg_id |-> msg_id, content |-> content] >>
    /\ trace' = acknowledge(inflight'[1])
    /\ last' = << >>
    /\ UNCHANGED <<connection_request, connected_account, tools, handshake,
                   pending_reported, owner, fmt_input, fmt_output>>

\* the state after a run of handle_message
Finish(run) ==
    /\ connection_request' = run.self.connection_request
    /\ connected_account' = run.self.connected_account
    /\ tools' = run.self.tools
    /\ handshake' = IF \E i \in 1..Len(run.events) :
                          run.events[i].call = "initiate" /\ run.events[i].ok
                    THEN "open" ELSE handshake
    /\ trace' = trace \o run.events
    /\ last' = << [msg |-> inflight[1], before |-> Self,
                   after_pending |-> pending_reported, owner |-> owner,
                   text |-> run.text,
                   branch |-> run.branch, result |-> run.result,
                   response |-> run.response, raised |-> run.raised] >>
    /\ pending_reported' = /\ ~is_authenticated(run.self)
                           /\ (pending_reported \/ run.response = AuthPending)
    /\ owner' = IF run.self # Self THEN inflight[1].sender ELSE owner
    /\ inflight' = << >>
    /\ UNCHANGED <<fmt_input, fmt_output>>

\* the rest of handle_message (lines 830-864), for one choice of what the
\* remote services do
Handle ==
    /\ inflight # << >>
    /\ \E o \in Oracles(Self, handshake, inflight[1]) :
           Finish(handle_message(Self, inflight[1], o))

\* the user finishes the flow behind the redirect URL
UserCompletesAuth ==
    /\ handshake = "open"
    /\ handshake' = "completed"
    /\ UNCHANGED <<connection_request, connected_account, tools, inflight, trace,
                   last, pending_reported, owner, fmt_input, fmt_output>>

Next ==
    \/ \E sender \in Senders, msg_id \in MsgIds, content \in Contents :
           Receive(sender, msg_id, content)
    \/ Handle
    \/ UserCompletesAuth

Spec == Init /\ [][Next]_vars

\* what the remote services do in a poll where wait_for_connection returns the
\* connection and tools.get returns the tool handles
PollSucceeds == Oracle(NoClassifierOracle, "ok", "ok", "ok", NoHandlerOracle)

\* the run of handle_message for a pending session after the user has finished
\* the flow, when neither remote call of complete_auth fails
RemoteAuthSucceeds ==
    /\ inflight # << >>
    /\ connection_request # None /\ ~is_authenticated(Self)
    /\ handshake = "completed"
    /\ Finish(handle_message(Self, inflight[1], PollSucceeds))

\* The session machine when messages keep arriving, the user finishes an open
\* handshake, and the two remote calls of complete_auth do not fail for ever.
LiveSpec ==
    /\ Init /\ [][Next]_vars
    /\ WF_vars(\E sender \in Senders, msg_id \in MsgIds, content \in Contents :
                   Receive(sender, msg_id, content))
    /\ WF_vars(UserCompletesAuth)
    /\ SF_vars(RemoteAuthSucceeds)

-----------------------------------------------------------------------------
(* The formatters on their own: a payload is drawn, and the formatter it is   *)
(* meant for is applied to it.                                                *)

\* how far beyond its budget a preview of this model reaches
MaxExcess == 2

\* a string of n characters
Chars(n) == [i \in 1..n |-> "x"]

\* lengths below, at and above a budget
LengthsAround(budget) == {0, 1} \cup ((budget - 1)..(budget + MaxExcess))

Timestamps == { <<"2024-05-01", "T", "10:30", ":00", "Z">>, <<"yesterday">> }

Message(n, date) ==
    [subject |-> <<"Invoice">>, sender |-> <<"john@example.com">>,
     messageTimestamp |-> date, preview |-> [body |-> Chars(n)]]

\* a message whose text/plain part holds n characters after a padded opening
FullMessage(n, mime) ==
    [subject |-> <<"Invoice">>, sender |-> <<"john@example.com">>,
     messageTimestamp |-> <<"yesterday">>,
     payload |-> [parts |-> << [mimeType |-> <<"image/png">>,
                                body |-> [data |-> <<"base64", "?">>]],
                               [mimeType |-> mime,
                                body |-> [data |-> <<"base64", " ", "<p>", "a", " ", " ">>
                                                   \o Chars(n) \o <<"</p>", "\n">>]] >>]]

Draft(n) ==
    [id |-> <<"r-1">>,
     message |-> [subject |-> <<"Hello">>, messageTimestamp |-> <<"yesterday">>,
                  preview |-> [body |-> Chars(n)]]]

MessageLists ==
    { << >>, <<NotADict>>, <<[subject |-> <<"Bare">>]>>,
      <<Message(3, <<"yesterday">>), Message(PreviewBudget + 1, << >>)>> }
    \cup { <<Message(n, d)>> : n \in LengthsAround(PreviewBudget), d \in Timestamps }

FullMessageLists ==
    { << >>, <<NotADict>>, <<[subject |-> <<"Bare">>]>> }
    \cup { <<FullMessage(n, m)>> : n \in LengthsAround(ContentBudget),
                                  m \in {<<"text/plain">>, <<"text/html">>} }

DraftLists ==
    { << >>, <<NotADict>>, <<[id |-> <<"r-0">>]>>, <<Draft(2), Draft(DraftBudget + 1)>> }
    \cup { <<Draft(n)>> : n \in LengthsAround(DraftBudget) }

LabelLists ==
    { << >>, <<NotADict>>,
      <<[name |-> <<"INBOX">>, type |-> <<"system">>]>>,
      <<[name |-> <<"fetch.ai">>, type |-> <<"user">>]>>,
      <<[name |-> <<"INBOX">>, type |-> <<"system">>],
        [name |-> <<"fetch.ai">>, type |-> <<"user">>], [id |-> <<"Label_3">>]>> }

Person == [names |-> <<[displayName |-> <<"Ada">>]>>,
           emailAddresses |-> <<[value |-> <<"ada@example.com">>]>>]

ContactPayloads ==
    { EmptyDict, NotADict, [nextPageToken |-> <<"t">>],
      [connections |-> << >>],
      [connections |-> <<Person>>],
      [connections |-> <<Person, [resourceName |-> <<"people/c2">>]>>],
      [connections |-> <<NotADict>>] }

ProfilePayloads ==
    { EmptyDict, NotADict,
      [emailAddress |-> <<"me@example.com">>],
      [emailAddress |-> <<"me@example.com">>, messagesTotal |-> <<"12">>,
       threadsTotal |-> <<"7">>, historyId |-> <<"991">>] }

\* per-call results of the gateway, one for every branch of _format_result
ResultItems ==
    { NotADict,
      [successful |-> FALSE, error |-> <<"Insufficient Permission">>],
      [successful |-> TRUE, data |-> EmptyDict],
      [successful |-> TRUE, data |-> [id |-> <<"Label_7">>, name |-> <<"fetch.ai">>]],
      [successful |-> TRUE, data |-> [messages |-> << >>]],
      [successful |-> TRUE, data |-> [messages |-> <<Message(3, <<"yesterday">>)>>]],
      [successful |-> TRUE, data |-> [messages |-> <<NotADict>>]],
      [successful |-> TRUE, data |-> [drafts |-> << >>]],
      [successful |-> TRUE, data |-> [drafts |-> <<Draft(2)>>]],
      [successful |-> TRUE, data |-> [labels |-> << >>]],
      [successful |-> TRUE,
       data |-> [labels |-> <<[name |-> <<"fetch.ai">>, type |-> <<"user">>]>>]],
      [successful |-> TRUE, data |-> [response_data |-> EmptyDict]],
      [successful |-> TRUE, data |-> [response_data |-> [connections |-> << >>]]],
      [successful |-> TRUE, data |-> [response_data |-> [connections |-> <<Person>>]]],
      [successful |-> TRUE,
       data |-> [response_data |-> [connections |-> <<Person>>],
                 messages |-> <<Message(3, <<"yesterday">>)>>]],
      [successful |-> TRUE, data |-> [emailAddress |-> <<"me@example.com">>]],
      [successful |-> TRUE,
       data |-> [emailAddress |-> <<"me@example.com">>, labels |-> << >>]] }

ResultLists == UNION { [1..n -> ResultItems] : n \in 0..MaxItems }

Payload(fn, arg) == [fn |-> fn, arg |-> arg]

FormatInit ==
    /\ connection_request = None
    /\ connected_account = None
    /\ tools = None
    /\ handshake = "none"
    /\ inflight = << >>
    /\ trace = << >>
    /\ last = << >>
    /\ pending_reported = FALSE
    /\ owner = None
    /\ fmt_output = << >>
    /\ \/ \E a \in MessageLists : fmt_input = <<Payload("_format_emails", a)>>
       \/ \E a \in FullMessageLists :
              fmt_input = <<Payload("_format_emails_with_full_content", a)>>
       \/ \E a \in DraftLists : fmt_input = <<Payload("_format_drafts", a)>>
       \/ \E a \in LabelLists : fmt_input = <<Payload("_format_labels", a)>>
       \/ \E a \in ContactPayloads : fmt_input = <<Payload("_format_contacts", a)>>
       \/ \E a \in ProfilePayloads : fmt_input = <<Payload("_format_profile", a)>>
       \/ \E a \in ResultLists : fmt_input = <<Payload("_format_result", a)>>

\* the payload is meant for the formatter fn, which has not been called yet
Awaits(fn) ==
    /\ fmt_input # << >> /\ fmt_output = << >>
    /\ fmt_input[1].fn = fn

SessionUntouched ==
    UNCHANGED <<connection_request, connected_account, tools, handshake,
                inflight, trace, last, pending_reported, owner, fmt_input>>

FormatEmails ==
    /\ Awaits("_format_emails")
    /\ fmt_output' = << _format_emails(fmt_input[1].arg) >>
    /\ SessionUntouched

FormatEmailsWithFullContent ==
    /\ Awaits("_format_emails_with_full_content")
    /\ fmt_output' = << _format_emails_with_full_content(fmt_input[1].arg) >>
    /\ SessionUntouched

FormatDrafts ==
    /\ Awaits("_format_drafts")
    /\ fmt_output' = << _format_drafts(fmt_input[1].arg) >>
    /\ SessionUntouched

FormatLabels ==
    /\ Awaits("_format_labels")
    /\ fmt_output' = << _format_labels(fmt_input[1].arg) >>
    /\ SessionUntouched

FormatContacts ==
    /\ Awaits("_format_contacts")
    /\ fmt_output' = << Ok(_format_contacts(fmt_input[1].arg)) >>
    /\ SessionUntouched

FormatProfile ==
    /\ Awaits("_format_profile")
    /\ fmt_output' = << Ok(_format_profile(fmt_input[1].arg)) >>
    /\ SessionUntouched

FormatResult ==
    /\ Awaits("_format_result")
    /\ fmt_output' = << Ok(_format_result(fmt_input[1].arg, <<"query">>)) >>
    /\ SessionUntouched

FormatNext ==
    \/ FormatEmails
    \/ FormatEmailsWithFullContent
    \/ FormatDrafts
    \/ FormatLabels
    \/ FormatContacts
    \/ FormatProfile
    \/ FormatResult

FormatSpec == FormatInit /\ [][FormatNext]_vars

-----------------------------------------------------------------------------
(* Properties.  They read the run that has just ended (last, trace) and, for  *)
(* the dispatcher, what process_query would do from the current session.      *)

Ended == last # << >>
Run   == last[1]

EventsOf(call) == {i \in 1..Len(trace) : trace[i].call = call}

\* the session states of the design: both fields populated, or not
Authenticated(self) == self.connected_account # "None" /\ self.tools # "None"
PendingRequest(self) == self.connection_request # "None"

\* what the classifier step handed to the dispatcher in the run that ended
Answer == trace[CHOOSE i \in EventsOf("classify") : TRUE].answer
Classified_ == EventsOf("classify") # {} /\ "<not a dict>" \notin DOMAIN Answer
RunIntent == IF "intent" \in DOMAIN Answer THEN Answer["intent"] ELSE "UNKNOWN"

IntentIn(c) ==
    IF c.classify = "ok"
    THEN (IF "intent" \in DOMAIN c.json THEN c.json["intent"] ELSE "UNKNOWN")
    ELSE "UNKNOWN"

NotAuthenticatedError ==
    <<"Gmail not authenticated. Send 'Authenticate Gmail' to start auth.">>

CallsIn(events) == [i \in 1..Len(events) |-> events[i].call]

\* C1: while the session is not authenticated, process_query on any intent
\* other than AUTH returns success=false with the not-authenticated error, runs
\* no handler (the generic one included) and calls neither the completion
\* service for an operation nor the tool gateway.
C1_UnauthenticatedRejected ==
    /\ (inflight # << >> /\ ~Authenticated(Self)) =>
          \A c \in ClassifierOracles :
              (c.classify # "not_object" /\ IntentIn(c) # "AUTH") =>
                  LET r == process_query(Self, TextOf(inflight[1].content),
                                         Oracle(c, "ok", "ok", "ok", NoHandlerOracle))
                  IN  /\ ~r.raised
                      /\ r.ret = [success |-> FALSE, error |-> NotAuthenticatedError]
                      /\ CallsIn(r.events) = <<"classify">>
                      /\ r.self = Self
    /\ (Ended /\ Run.branch = "query" /\ ~Authenticated(Run.before)
          /\ Classified_ /\ RunIntent # "AUTH") =>
          /\ Run.result = [success |-> FALSE, error |-> NotAuthenticatedError]
          /\ EventsOf("handler") = {}
          /\ EventsOf("complete") = {}
          /\ EventsOf("gateway") = {}
          /\ Run.response = <<"Error: ">> \o NotAuthenticatedError

\* a SEND request has just been refused for lack of authentication
C1_Witness ==
    /\ Ended /\ Run.branch = "query" /\ ~Authenticated(Run.before)
    /\ Classified_ /\ RunIntent = "SEND"
    /\ Run.result["success"] = FALSE

\* C2: in every session state (no request yet, request pending, authenticated)
\* process_query given an AUTH intent calls the handshake initiation right
\* after the classifier, with no authentication test and no gateway call, and
\* returns a successful AUTH result whose text is the initiation's text.
C2_AuthAlwaysInitiates ==
    /\ inflight # << >> =>
          \A c \in ClassifierOracles, i \in InitiateOutcomes :
              IntentIn(c) = "AUTH" =>
                  LET r == process_query(Self, TextOf(inflight[1].content),
                                         Oracle(c, i, "ok", "ok", NoHandlerOracle))
                  IN  /\ ~r.raised
                      /\ CallsIn(r.events) = <<"classify", "initiate">>
                      /\ r.events[2].ok = (i = "ok")
                      /\ DOMAIN r.ret = {"success", "intent", "formatted_result"}
                      /\ r.ret["success"] = TRUE
                      /\ r.ret["intent"] = "AUTH"
                      /\ Head(r.ret["formatted_result"]) =
                            (IF i = "ok" THEN "Please visit this URL to authenticate Gmail: "
                             ELSE "Error initiating auth: ")
                      /\ r.self.connection_request =
                            (IF i = "ok" THEN "request" ELSE connection_request)
    /\ (Ended /\ Run.branch = "query" /\ Classified_ /\ RunIntent = "AUTH") =>
          /\ CallsIn(trace) = <<"ack", "classify", "initiate", "reply">>
          /\ Run.result["success"] = TRUE
          /\ Run.response = Run.result["formatted_result"]

\* an authenticated session has just re-initiated the handshake
C2_Witness ==
    /\ Ended /\ Authenticated(Run.before)
    /\ EventsOf("initiate") # {}
    /\ Run.result["intent"] = "AUTH"

\* C3: after a poll has answered "not yet completed" (request pending,
\* session unauthenticated), an inbound message asking to authenticate causes
\* a new handshake initiation.
C3_AuthRetryable ==
    (/\ Ended
     /\ Run.after_pending
     /\ PendingRequest(Run.before) /\ ~Authenticated(Run.before)
     /\ Run.text = <<"Authenticate", "Gmail">>)
    => EventsOf("initiate") # {}

\* C4: every inbound message gets exactly one acknowledgement, carrying its
\* identifier, before any classifier call, poll, handler or gateway call and
\* before the reply; exactly one reply follows, and it is the last thing sent.
C4_AckFirstReplyLast ==
    /\ inflight # << >> =>
          /\ CallsIn(trace) = <<"ack">>
          /\ trace[1].arg = <<inflight[1].msg_id>>
    /\ Ended =>
          /\ Len(trace) >= 2
          /\ EventsOf("ack") = {1}
          /\ trace[1].arg = <<Run.msg.msg_id>>
          /\ EventsOf("reply") = {Len(trace)}
          /\ trace[Len(trace)].arg = Run.response

\* message msg-2 has been acknowledged, classified, handled through the
\* gateway and answered
C4_Witness ==
    /\ Ended /\ Run.msg.msg_id = "msg-2"
    /\ EventsOf("classify") # {} /\ EventsOf("gateway") # {}
    /\ EventsOf("reply") # {}

\* C5: whatever fails while an inbound message is handled (completion
\* service, tool gateway, handshake initiation, handshake poll), no exception
\* leaves handle_message and a non-empty text reply is sent for the message.
C5_NoFailureEscapes ==
    Ended =>
        /\ ~Run.raised
        /\ Run.response # << >>
        /\ trace[Len(trace)].call = "reply"
        /\ trace[Len(trace)].arg = Run.response

Failed(call) == \E i \in EventsOf(call) : ~trace[i].ok

\* the classifier's answer was no JSON object, process_query raised on it, and
\* the apology was sent
C5_Witness ==
    /\ Ended
    /\ EventsOf("classify") # {} /\ ~Classified_
    /\ Head(Run.response) = "Sorry, couldn't process that: "

\* the handler the design gives each intent name
ExpectedHandler(intent) ==
    CASE intent = "SEND"          -> "_handle_send_email"
      [] intent = "SEARCH"        -> "_handle_search_emails"
      [] intent = "DELETE"        -> "_handle_delete_emails"
      [] intent = "MOVE_TO_TRASH" -> "_handle_move_to_trash"
      [] intent = "GET_CONTACTS"  -> "_handle_get_contacts"
      [] intent = "MARK_READ"     -> "_handle_mark_as_read"
      [] intent = "MARK_UNREAD"   -> "_handle_mark_as_unread"
      [] intent = "READ"          -> "_handle_read_email"
      [] intent = "CREATE_LABEL"  -> "_handle_create_label"
      [] intent = "GET_PROFILE"   -> "_handle_get_profile"
      [] OTHER                    -> "generic"

\* the instruction without its "@composio agent" prefix
Cleaned(text) ==
    IF Len(text) >= 3 /\ text[1] = "@Composio" /\ text[2] = "AGENT"
    THEN SubSeq(text, 3, Len(text)) ELSE text

\* C6: in an authenticated session each of the ten named intents is
\* dispatched to its own handler and to no other, and every other intent name
\* (UNKNOWN included) to the generic handler, which forwards the cleaned
\* instruction with the full tool set.
C6_Dispatch ==
    (Ended /\ Run.branch = "query" /\ Authenticated(Run.before)
       /\ Classified_ /\ RunIntent # "AUTH") =>
        LET h == ExpectedHandler(RunIntent)
        IN  /\ Cardinality(EventsOf("handler")) = 1
            /\ \A i \in EventsOf("handler") \cup EventsOf("complete")
                        \cup EventsOf("gateway") : trace[i].by = h
            /\ h = "generic" =>
                  /\ Cardinality(EventsOf("complete")) = 1
                  /\ \A i \in EventsOf("complete") :
                         /\ trace[i].arg = Cleaned(Run.text)
                         /\ trace[i].offered = gmail_tools

\* a MARK_UNREAD request went through its own handler to the gateway
C6_Witness ==
    /\ Ended /\ Authenticated(Run.before) /\ Classified_
    /\ RunIntent = "MARK_UNREAD"
    /\ \E i \in EventsOf("gateway") : trace[i].by = "_handle_mark_as_unread"

\* a REPLY request (no handler of its own) went through the generic handler
C6_WitnessGeneric ==
    /\ Ended /\ Authenticated(Run.before) /\ Classified_
    /\ RunIntent = "REPLY"
    /\ \E i \in EventsOf("gateway") : trace[i].by = "generic"

RunParameters ==
    IF "parameters" \in DOMAIN Answer THEN Answer["parameters"] ELSE EmptyDict

Missing(key) ==
    /\ "<not a dict>" \notin DOMAIN RunParameters
    /\ key \notin DOMAIN RunParameters

\* a step of the handler that ran has failed
StepFailed ==
    \/ Failed("complete")
    \/ Failed("gateway")
    \/ RunIntent = "SEND" /\ Missing("recipient")
    \/ RunIntent = "CREATE_LABEL" /\ Missing("label_name")
    \/ /\ RunIntent \notin {"GET_CONTACTS", "GET_PROFILE"}
       /\ "<not a dict>" \in DOMAIN RunParameters
    \/ /\ "result" \in DOMAIN Run.result
       /\ \E i \in 1..Len(Run.result["result"]) :
              "<not a dict>" \in DOMAIN Run.result["result"][i]

\* C7: when a step of an operation handler fails (deriving the instruction,
\* SEND without a recipient and CREATE_LABEL without a label name included;
\* the completion call; the gateway call; formatting), the handler raises
\* nothing and its result carries success=false together with an error message.
C7_HandlerFailureShape ==
    (Ended /\ Run.branch = "query" /\ Authenticated(Run.before)
       /\ Classified_ /\ RunIntent \in HandledIntents /\ StepFailed) =>
        /\ ~Run.raised
        /\ "success" \in DOMAIN Run.result
        /\ Run.result["success"] = FALSE
        /\ "error" \in DOMAIN Run.result
        /\ Run.result["error"] # << >>

UnknownAnswer ==
    [intent |-> "UNKNOWN", parameters |-> EmptyDict, confidence |-> "0.0"]

\* C8: when the classifier's completion call fails or its content is no
\* parsable JSON, analyze_user_intent raises nothing and returns UNKNOWN with
\* empty parameters and confidence 0.0, and the request takes the UNKNOWN path:
\* the not-authenticated error, or the generic handler.
C8_ClassifierFailure ==
    (Ended /\ Failed("classify")) =>
        /\ Answer = UnknownAnswer
        /\ ~Run.raised
        /\ IF Authenticated(Run.before)
           THEN /\ Cardinality(EventsOf("handler")) = 1
                /\ \A i \in EventsOf("handler") \cup EventsOf("complete") :
                       trace[i].by = "generic"
                /\ EventsOf("complete") # {}
           ELSE /\ Run.result = [success |-> FALSE, error |-> NotAuthenticatedError]
                /\ EventsOf("handler") = {}

\* the classifier failed in an authenticated session and the generic handler
\* reached the gateway
C8_Witness ==
    /\ Ended /\ Failed("classify") /\ Authenticated(Run.before)
    /\ \E i \in EventsOf("gateway") : trace[i].by = "generic" /\ trace[i].ok

\* the tools each handler's system instruction tells the completion to use
Allowlist(handler) ==
    CASE handler = "_handle_send_email" -> {"GMAIL_SEND_EMAIL"}
      [] handler = "_handle_search_emails" -> {"GMAIL_FETCH_EMAILS"}
      [] handler = "_handle_delete_emails" -> {"GMAIL_FETCH_EMAILS", "GMAIL_DELETE_MESSAGE"}
      [] handler = "_handle_move_to_trash" -> {"GMAIL_FETCH_EMAILS", "GMAIL_MOVE_TO_TRASH"}
      [] handler = "_handle_get_contacts" -> {"GMAIL_GET_CONTACTS"}
      [] handler = "_handle_mark_as_read" -> {"GMAIL_FETCH_EMAILS", "GMAIL_MARK_AS_READ"}
      [] handler = "_handle_mark_as_unread" -> {"GMAIL_FETCH_EMAILS", "GMAIL_MARK_AS_UNREAD"}
      [] handler = "_handle_read_email" -> {"GMAIL_FETCH_EMAILS"}
      [] handler = "_handle_create_label" -> {"GMAIL_CREATE_LABEL"}
      [] handler = "_handle_get_profile" -> {"GMAIL_GET_PROFILE"}
      [] OTHER -> gmail_tools

\* C9: each operation handler offers its completion call only its own
\* narrowed allowlist, a subset of the fixed list of mailbox tools (the send
\* handler the send tool, the delete handler fetch and delete), and no tool
\* outside it.
C9_NarrowedAllowlist ==
    \A i \in EventsOf("complete") :
        trace[i].by # "generic" =>
            /\ trace[i].offered \subseteq Allowlist(trace[i].by)
            /\ Allowlist(trace[i].by) \subseteq gmail_tools

\* the remote calls of the claim: classifier, handler completion, gateway
AttemptedOnce == {"classify", "complete", "gateway"}

\* C10: for every inbound message the gateway execution call is made at most
\* once, and once a classifier, handler-completion or gateway call has failed,
\* that call is not made again for the same message.
C10_SingleAttempt ==
    /\ Cardinality(EventsOf("gateway")) <= 1
    /\ \A i, j \in 1..Len(trace) :
           (i < j /\ trace[i].call \in AttemptedOnce /\ ~trace[i].ok)
               => trace[j].call # trace[i].call
    /\ \A k \in AttemptedOnce : Cardinality(EventsOf(k)) <= 1

\* a gateway call failed and the run ended with that one attempt
C10_Witness ==
    /\ Ended /\ Failed("gateway")
    /\ Cardinality(EventsOf("gateway")) = 1
    /\ EventsOf("reply") # {}

DefaultSubject == <<"Message">>
DefaultBody == <<"Hello,\n\nI hope this email finds you well.\n\nBest regards">>

\* what the user gave for a field of the SEND parameters, or the default
Supplied(key, default) ==
    IF key \in DOMAIN RunParameters /\ RunParameters[key] # << >>
    THEN RunParameters[key] ELSE default

\* the send instruction built from the literal subject and content
FallbackInstruction ==
    <<"Send an email to ">> \o RunParameters["recipient"]
    \o <<" with: Subject: ">> \o Supplied("subject", DefaultSubject)
    \o <<" Body: ">> \o Supplied("content", DefaultBody)

\* a SEND request with a recipient in an authenticated session, whose
\* composition call failed
ComposeFailed ==
    /\ Ended /\ Run.branch = "query" /\ Authenticated(Run.before)
    /\ Classified_ /\ RunIntent = "SEND"
    /\ ~Missing("recipient") /\ IsDict(RunParameters)
    /\ Failed("compose")

\* C11: when the composition call inside compose_email_with_ai fails, SEND
\* does not fail for that reason: the handler issues the send instruction with
\* the user's subject (or the default subject) and the user's content (or the
\* default greeting), and a successful result carries exactly those.
C11_ComposeFallback ==
    ComposeFailed =>
        /\ \E i \in EventsOf("complete") :
               /\ trace[i].by = "_handle_send_email"
               /\ trace[i].arg = FallbackInstruction
               /\ \A j \in EventsOf("compose") : j < i
        /\ (~Failed("complete") /\ ~Failed("gateway")) =>
               /\ Get(Run.result, "success", FALSE) = TRUE
               /\ Get(Run.result, "composed_email", EmptyDict)
                    = [subject |-> Supplied("subject", DefaultSubject),
                       body |-> Supplied("content", DefaultBody)]

\* composition failed for a request that gave no subject and no content, and
\* the send went through the gateway with the defaults
C11_Witness ==
    /\ ComposeFailed
    /\ "subject" \notin DOMAIN RunParameters
    /\ \E i \in EventsOf("gateway") : trace[i].ok
    /\ Get(Run.result, "success", FALSE) = TRUE

\* part occurs in text
Contains(text, part) ==
    \E k \in 0..(Len(text) - Len(part)) : SubSeq(text, k + 1, k + Len(part)) = part

\* the text the handler's formatter produced: what the handler gave the refiner
FormatterTexts(handler) ==
    {trace[i].arg : i \in {j \in EventsOf("refine") : trace[j].by = handler}}

\* the gateway call was made and every per-call result reports success
GatewaySucceeded ==
    /\ \E i \in EventsOf("gateway") : trace[i].ok
    /\ "result" \in DOMAIN Run.result
    /\ Run.result["result"] # << >>
    /\ \A i \in 1..Len(Run.result["result"]) :
           /\ "successful" \in DOMAIN Run.result["result"][i]
           /\ Run.result["result"][i]["successful"] = TRUE

\* C14: for a CREATE_LABEL request with a non-empty label_name in an
\* authenticated session, when the gateway reports success the formatted result
\* produced by the handler's formatter contains the label name.
C14_LabelNameInResult ==
    (/\ Ended /\ Run.branch = "query" /\ Authenticated(Run.before)
     /\ Classified_ /\ RunIntent = "CREATE_LABEL"
     /\ IsDict(RunParameters) /\ ~Missing("label_name")
     /\ GatewaySucceeded) =>
        /\ FormatterTexts("_handle_create_label") # {}
        /\ \A text \in FormatterTexts("_handle_create_label") :
               Contains(text, RunParameters["label_name"])

ProcessingCalls ==
    {"classify", "initiate", "handler", "compose", "complete", "gateway", "refine"}

\* C15: when a request is outstanding and the session is not authenticated, an
\* inbound message causes exactly one handshake poll and no classifier,
\* dispatcher, handler or gateway call, whether the poll succeeds or not; in
\* every other session state the message goes to the dispatcher and no poll is
\* made.
C15_PollOrDispatch ==
    Ended =>
        IF PendingRequest(Run.before) /\ ~Authenticated(Run.before)
        THEN /\ Cardinality(EventsOf("wait")) = 1
             /\ \A c \in ProcessingCalls : EventsOf(c) = {}
             /\ Run.response \in {AuthCompleted, AuthPending}
             /\ Run.result = EmptyDict
        ELSE /\ EventsOf("wait") = {} /\ EventsOf("tools_get") = {}
             /\ Cardinality(EventsOf("classify")) = 1
             /\ \A i \in EventsOf("classify") : i = 2 /\ trace[i].arg = Cleaned(Run.text)

\* a message asking to delete spam arrived while a request was pending; the
\* poll succeeded and nothing else was called
C15_Witness ==
    /\ Ended /\ PendingRequest(Run.before) /\ ~Authenticated(Run.before)
    /\ Run.text = <<"@Composio", "AGENT", "delete", "spam", "mail">>
    /\ Run.response = AuthCompleted
    /\ \E i \in EventsOf("wait") : trace[i].ok

SpamTokens == {"is:spam", "is:spam "}

\* C18: every handler that derives a search expression from the parameters
\* (SEARCH, DELETE, MOVE_TO_TRASH, READ) includes the token is:spam in it
\* whenever is_spam is set; for DELETE with is_spam set and nothing else the
\* expression is exactly is:spam.
C18_SpamToken ==
    (/\ Ended /\ Run.branch = "query" /\ Authenticated(Run.before)
     /\ Classified_ /\ RunIntent \in {"SEARCH", "DELETE", "MOVE_TO_TRASH", "READ"}
     /\ IsDict(RunParameters) /\ ~Missing("is_spam")
     /\ RunParameters["is_spam"] = TRUE) =>
        /\ EventsOf("complete") # {}
        /\ \A i \in EventsOf("complete") :
               \E k \in 1..Len(trace[i].arg) : trace[i].arg[k] \in SpamTokens
        /\ (RunIntent = "DELETE" /\ DOMAIN RunParameters = {"is_spam"}) =>
               \A i \in EventsOf("complete") :
                   trace[i].arg =
                       <<"Delete emails matching the criteria: ", "is:spam",
                         ". First search for matching emails, then delete them using GMAIL_DELETE_MESSAGE.">>

\* C19: the session is one instance shared by all senders: in an authenticated
\* session a non-AUTH request of any sender is dispatched as authenticated, and
\* while a request is pending a message of any sender triggers the poll, also
\* when another sender's message started or completed the handshake.
C19_SharedSession ==
    Ended =>
        /\ (Authenticated(Run.before) /\ Classified_ /\ RunIntent # "AUTH") =>
               /\ EventsOf("handler") # {}
               /\ Get(Run.result, "error", << >>) # NotAuthenticatedError
        /\ (PendingRequest(Run.before) /\ ~Authenticated(Run.before)) =>
               /\ Run.branch = "poll"
               /\ EventsOf("wait") # {}
        /\ Run.owner = None => (~PendingRequest(Run.before) /\ ~Authenticated(Run.before))

\* another sender's message completed the handshake, and this sender's request
\* has been dispatched to a handler
C19_Witness ==
    /\ Ended /\ Authenticated(Run.before)
    /\ Run.owner # None /\ Run.owner # Run.msg.sender
    /\ Classified_ /\ RunIntent = "GET_PROFILE"
    /\ EventsOf("handler") # {}

\* another sender's message started the handshake, and this sender's message
\* has polled it
C19_WitnessPoll ==
    /\ Ended /\ PendingRequest(Run.before) /\ ~Authenticated(Run.before)
    /\ Run.owner # None /\ Run.owner # Run.msg.sender
    /\ Run.branch = "poll"

\* C20: the session is created at process start with its account identifier
\* and its auth-config reference populated and with the pending request, the
\* connection and the tool handles empty: the initial state is unauthenticated
\* with no pending request.
C20_SessionCreated ==
    (owner = None /\ handshake = "none") =>
        \A getenv \in Getenv :
            LET made == gmail_agent(getenv)
            IN  /\ ~made.raised
                /\ made.self["user_email"] # None
                /\ made.self["auth_config_id"] # None
                /\ made.self["connection_request"] = connection_request
                /\ made.self["connected_account"] = connected_account
                /\ made.self["tools"] = tools
                /\ ~PendingRequest(Self) /\ ~Authenticated(Self)

-----------------------------------------------------------------------------
(* Properties of the formatters, read off the payload and what the formatter *)
(* made of it.                                                                *)

Applied(fn) == fmt_output # << >> /\ fmt_input[1].fn = fn
Given == fmt_input[1].arg
Made  == fmt_output[1]

\* the none-found message of each result shape
NoneFound(shape) ==
    CASE shape = "messages" -> <<"No emails found matching your criteria.">>
      [] shape = "drafts"   -> <<"No drafts found.">>
      [] shape = "labels"   -> <<"No labels found.">>
      [] shape = "contacts" -> <<"No contacts found.">>
      [] shape = "profile"  -> <<"No profile data found.">>

Shapes == {"messages", "drafts", "labels", "contacts", "profile"}

\* C12: for each result shape (message list, draft list, label list, contact
\* list, profile) an empty collection or empty payload makes the formatter emit
\* exactly that shape's none-found message, the five messages are distinct, and
\* no report made for a gateway result is empty.
C12_NoneFound ==
    /\ \A a, b \in Shapes : a # b => NoneFound(a) # NoneFound(b)
    /\ (Applied("_format_emails") /\ Given = << >>)
           => Made = Ok(<< NoneFound("messages") >>)
    /\ (Applied("_format_emails_with_full_content") /\ Given = << >>)
           => Made = Ok(NoneFound("messages"))
    /\ (Applied("_format_drafts") /\ Given = << >>)
           => Made = Ok(<< NoneFound("drafts") >>)
    /\ (Applied("_format_labels") /\ Given = << >>)
           => Made = Ok(<< NoneFound("labels") >>)
    /\ (Applied("_format_contacts") /\ IsDict(Given)
          /\ Get(Given, "connections", << >>) = << >>)
           => Made = Ok(NoneFound("contacts"))
    /\ (Applied("_format_profile") /\ Given = EmptyDict)
           => Made = Ok(NoneFound("profile"))
    /\ Applied("_format_result") => Made.ret # << >>

\* what the design displays for a string s under a budget
Shown(s, budget) ==
    IF Len(s) <= budget THEN s ELSE [i \in 1..budget |-> s[i]] \o <<"...">>

PreviewOf(m) ==
    IF "preview" \in DOMAIN m /\ "body" \in DOMAIN m["preview"]
    THEN m["preview"]["body"] ELSE << >>

DraftPreviewOf(d) == IF "message" \in DOMAIN d THEN PreviewOf(d["message"]) ELSE << >>

\* the lines of a report that start with the given tag
Tagged(lines, tag) == {k \in 1..Len(lines) : lines[k] # << >> /\ lines[k][1] = tag}

\* the previews the lines tagged tag display are those of the items, in order,
\* each cut to the budget
DisplaysCut(lines, tag, previews, budget) ==
    LET shown == SelectSeq(previews, LAMBDA s : s # << >>)
        at    == Tagged(lines, tag)
    IN  /\ Cardinality(at) = Len(shown)
        /\ \A n \in 1..Len(shown) :
               \E k \in at :
                   /\ Cardinality({j \in at : j <= k}) = n
                   /\ lines[k] = <<tag>> \o Shown(shown[n], budget)

\* C13: a preview or content string longer than its budget (200 for an email
\* preview, 1000 for full content, 150 for a draft preview) is displayed as its
\* first budget characters followed by the ellipsis marker; a string at or
\* under the budget is displayed unchanged.
C13_Truncation ==
    /\ (Applied("_format_emails") /\ ~Made.raised /\ Given # << >>) =>
           DisplaysCut(Made.ret, "Preview: ",
                       [i \in 1..Len(Given) |-> PreviewOf(Given[i])], 200)
    /\ (Applied("_format_drafts") /\ ~Made.raised /\ Given # << >>) =>
           DisplaysCut(Made.ret, "Content: ",
                       [i \in 1..Len(Given) |-> DraftPreviewOf(Given[i])], 150)
    /\ (Applied("_format_emails_with_full_content") /\ ~Made.raised
          /\ Len(Given) = 1 /\ _extract_email_content(Given[1]) # << >>) =>
           LET content == _extract_email_content(Given[1])
               shown   == Shown(content, 1000)
               at      == {k \in 1..Len(Made.ret) : Made.ret[k] = "Full Content: "}
           IN  /\ Cardinality(at) = 1
               /\ \A k \in at :
                      /\ SubSeq(Made.ret, k + 1, k + Len(shown)) = shown
                      /\ Made.ret[k + Len(shown) + 1] = "\n"

\* an email preview of 201 characters has been displayed
C13_Witness ==
    /\ Applied("_format_emails") /\ ~Made.raised
    /\ Len(Given) = 1 /\ Len(PreviewOf(Given[1])) = 201
    /\ \E k \in 1..Len(Made.ret) : Len(Made.ret[k]) = 202

\* a text content of 1001 characters has been displayed
C13_WitnessContent ==
    /\ Applied("_format_emails_with_full_content") /\ ~Made.raised
    /\ Len(Given) = 1 /\ Len(_extract_email_content(Given[1])) = 1001

\* the text of a list of lines
Lines(made) == Join(<<"\n">>, made.ret)

\* the formatter that the fields of data select, applied to the payload
Selected(data) ==
    IF "messages" \in DOMAIN data THEN _format_emails(data["messages"])
    ELSE IF "drafts" \in DOMAIN data THEN _format_drafts(data["drafts"])
    ELSE IF "labels" \in DOMAIN data THEN _format_labels(data["labels"])
    ELSE IF "response_data" \in DOMAIN data
    THEN Ok(<< _format_contacts(data["response_data"]) >>)
    ELSE IF "emailAddress" \in DOMAIN data THEN Ok(<< _format_profile(data) >>)
    ELSE Ok(<< <<"Operation completed successfully">> >>)

Successful(item) ==
    IsDict(item) /\ "successful" \in DOMAIN item /\ item["successful"] = TRUE

DataOf(item) == IF "data" \in DOMAIN item THEN item["data"] ELSE EmptyDict

\* formatting the item raises
Malformed(item) ==
    \/ ~IsDict(item)
    \/ Successful(item) /\ Selected(DataOf(item)).raised

\* C16: _format_result renders each successful item with the formatter that
\* the field present in its data selects (messages, drafts, labels,
\* response_data, emailAddress, in that order), and the item's section of the
\* report is that formatter's text; an item with response_data.connections
\* yields the text of _format_contacts.
C16_ShapeSelects ==
    (/\ Applied("_format_result") /\ Len(Given) = 1
     /\ Successful(Given[1]) /\ ~Malformed(Given[1])) =>
        Made.ret = Lines(Selected(DataOf(Given[1])))

\* the section the report holds for an item when the item is alone
Section(item) == _format_result(<<item>>, <<"query">>)

\* C17: when formatting one item of a gateway result fails, the report holds
\* an inline error line for that item and still holds the sections of the other
\* items; the failure never replaces the whole report.
C17_PerItemFailure ==
    (Applied("_format_result") /\ \E i \in 1..Len(Given) : Malformed(Given[i])) =>
        /\ \A i \in 1..Len(Given) :
               ~Malformed(Given[i]) => Contains(Made.ret, Section(Given[i]))
        /\ Made.ret[1] # "Error formatting result: "

-----------------------------------------------------------------------------
(* The session over time *)

\* the calls complete_auth makes
PollCalls == EventsOf("wait") \cup EventsOf("tools_get")

\* a step that assigns connected_account or tools
WritesSession ==
    connected_account' # connected_account \/ tools' # tools

\* C21: Authenticated is absorbing.  Once connected_account and tools are both
\* set, no step (an AUTH re-initiation that succeeds or fails, a handler, a
\* failure, an inbound message) changes either of them, and the run of a
\* message received by an authenticated session makes no handshake poll; in
\* every reachable state tools set implies connected_account set; and a step
\* that writes either field is the end of a run that took the poll branch.
C21_AuthenticatedAbsorbing ==
    /\ [](tools # None => connected_account # None)
    /\ []((Ended /\ Authenticated(Run.before)) =>
             (Run.branch = "query" /\ PollCalls = {}))
    /\ [][Authenticated(Self) =>
             (connected_account' = connected_account /\ tools' = tools)]_vars
    /\ [][WritesSession =>
             (last' # << >> /\ last'[1].branch = "poll"
              /\ ~Authenticated(last'[1].before))]_vars

\* an authenticated session has been through an AUTH re-initiation that failed
\* and is still authenticated
C21_Witness ==
    /\ Ended /\ Authenticated(Run.before) /\ Authenticated(Self)
    /\ \E i \in EventsOf("initiate") : ~trace[i].ok

\* an authenticated session has been through a handler whose gateway call
\* failed and is still authenticated
C21_WitnessFailure ==
    /\ Ended /\ Authenticated(Run.before) /\ Authenticated(Self)
    /\ \E i \in EventsOf("gateway") : ~trace[i].ok

\* C22: a session with a handshake request and not yet authenticated becomes
\* authenticated in the end, when messages keep arriving, the external
\* handshake completes and the tool-handle fetch succeeds in the end.  Until
\* then a poll that was answered "not yet completed" (timed out, or obtained
\* the connection without the tool handles) has left the session
\* unauthenticated with its request, and the next message polls again.  The
\* message received by the authenticated session goes to process_query, the
\* classifier being the first call after the acknowledgement.
C22_EventuallyAuthenticated ==
    /\ (PendingRequest(Self) /\ ~Authenticated(Self)) ~> Authenticated(Self)
    /\ []((Ended /\ Run.branch = "poll" /\ Run.response = AuthPending) =>
             (PendingRequest(Self) /\ ~Authenticated(Self)))
    /\ []((Ended /\ Run.after_pending) => (Run.branch = "poll" /\ PollCalls # {}))
    /\ []((Ended /\ Authenticated(Run.before)) =>
             (Run.branch = "query" /\ Len(trace) >= 2 /\ trace[2].call = "classify"))

\* a poll has just authenticated a session whose earlier poll had obtained the
\* connection without the tool handles and had been answered "not yet
\* completed"
C22_Witness ==
    /\ Ended /\ Run.branch = "poll" /\ Run.after_pending
    /\ Run.before.connected_account # None /\ Run.before.tools = None
    /\ Run.response = AuthCompleted
    /\ Authenticated(Self)

\* the message after the authenticating poll has been dispatched
C22_WitnessDispatched ==
    /\ Ended /\ Authenticated(Run.before) /\ Run.branch = "query"
    /\ Run.owner # None
    /\ EventsOf("classify") # {} /\ EventsOf("handler") # {}

====
